---- MODULE Spec2Model ----
(***************************************************************************)
(* A model of go-read-burn: the single-read storage engine                 *)
(* (internal/storage/storage.go) and the identifier/cipher component       *)
(* (internal/crypto/crypto.go, AES-256-GCM revision).                      *)
(***************************************************************************)
EXTENDS Integers, Sequences, FiniteSets, TLC

VARIABLES
    db,          \* the bolt database: whether the bucket exists, and key -> stored bytes
    now,         \* the wall clock read by time.Now(), in ticks
    sweep,       \* position of the DeleteExpired call (cutoff computed / transaction run)
    ret,         \* what the last completed storage operation returned
    everStored,  \* keys for which a Store has succeeded at some time
    rd,          \* the read requests in flight: position and what each holds
    cr,          \* one use of the cipher: its inputs, the ciphertext, the decryption
    tx,          \* the bolt transactions of concurrent calls: position and private view
    id           \* identifiers: the GenerateID call, and the last ParseID / ValidateID

vars == <<db, now, sweep, ret, everStored, rd, cr, tx, id>>

(***************************************************************************)
(* Bounds and input sets.                                                  *)
(***************************************************************************)
MaxTime == 4
MaxTtlDays == 5

Keys == {"k1", "k2"}

\* byte slices handed to Store: the empty slice, and a three-byte and a two-byte one
Encrypteds == { <<>>, <<255, 0, 16>>, <<7, 200>> }

(***************************************************************************)
(* time.Duration arithmetic, scaled: a day is DayTicks clock ticks and a   *)
(* Duration is a signed integer of DurMod values that wraps on overflow,   *)
(* as Go's int64 does.                                                     *)
(***************************************************************************)
DayTicks == 2
DurMod == 16

WrapDuration(x) == ((x + DurMod \div 2) % DurMod) - DurMod \div 2

\* time.Now().Add(time.Duration(-ttlDays) * 24 * time.Hour).UnixMilli()
Cutoff(t, ttlDays) == t + WrapDuration((0 - ttlDays) * DayTicks)

(***************************************************************************)
(* Values.                                                                 *)
(***************************************************************************)
NoErr == "nil"
ErrBucketNotFound == "bucket not found"
ErrUnmarshal == "json: cannot unmarshal"

NoData == [kind |-> "nil"]          \* b.Get returned nil
NilSecret == [kind |-> "nil"]       \* a nil *Secret
ZeroSecret == [Timestamp |-> 0, Encrypted |-> <<>>]

PadChar == 64

\* base64.StdEncoding.EncodeToString: three bytes become four 6-bit symbols,
\* a trailing group of one or two bytes is padded with '='
RECURSIVE EncodeToString(_)
EncodeToString(src) ==
    IF Len(src) = 0 THEN <<>>
    ELSE IF Len(src) = 1 THEN
        << src[1] \div 4, (src[1] % 4) * 16, PadChar, PadChar >>
    ELSE IF Len(src) = 2 THEN
        << src[1] \div 4, (src[1] % 4) * 16 + src[2] \div 16,
           (src[2] % 16) * 4, PadChar >>
    ELSE
        << src[1] \div 4, (src[1] % 4) * 16 + src[2] \div 16,
           (src[2] % 16) * 4 + src[3] \div 64, src[3] % 64 >>
        \o EncodeToString(SubSeq(src, 4, Len(src)))

\* json.Marshal(secret): the bytes written under the key
Marshal(secret) ==
    [kind |-> "json", Timestamp |-> secret.Timestamp, Encrypted |-> secret.Encrypted]

\* json.Unmarshal(data, &secret)
Unmarshal(data) ==
    IF data.kind = "json"
    THEN [secret |-> [Timestamp |-> data.Timestamp, Encrypted |-> data.Encrypted],
          err |-> NoErr]
    ELSE [secret |-> ZeroSecret, err |-> ErrUnmarshal]

EmptyBucket == [k \in Keys |-> NoData]

(***************************************************************************)
(* The transactions of storage.go as functions of the database.            *)
(***************************************************************************)
\* InitBucket that creates the bucket anew on every call
InitBucketTxFresh(d) ==
    [db |-> [exists |-> TRUE, data |-> EmptyBucket], err |-> NoErr]

\* InitBucket: tx.CreateBucketIfNotExists
InitBucketTx(d) ==
    [db |-> [exists |-> TRUE, data |-> d.data], err |-> NoErr]

\* Store that creates the bucket when it is missing
StoreTxCreating(d, key, encrypted, t) ==
    LET secret == [Timestamp |-> t, Encrypted |-> EncodeToString(encrypted)]
    IN [db |-> [exists |-> TRUE, data |-> [d.data EXCEPT ![key] = Marshal(secret)]],
        err |-> NoErr]

\* Store that does not overwrite a record already under key
StoreTxKeepExisting(d, key, encrypted, t) ==
    IF ~d.exists THEN [db |-> d, err |-> ErrBucketNotFound]
    ELSE IF d.data[key] # NoData THEN [db |-> d, err |-> NoErr]
    ELSE LET secret == [Timestamp |-> t, Encrypted |-> EncodeToString(encrypted)]
         IN [db |-> [d EXCEPT !.data[key] = Marshal(secret)], err |-> NoErr]

\* Store: marshal {now, base64(encrypted)} and b.Put it under key
StoreTx(d, key, encrypted, t) ==
    IF ~d.exists THEN [db |-> d, err |-> ErrBucketNotFound]
    ELSE LET secret == [Timestamp |-> t, Encrypted |-> EncodeToString(encrypted)]
         IN [db |-> [d EXCEPT !.data[key] = Marshal(secret)], err |-> NoErr]

\* Retrieve whose not-found test looks at the Encrypted field only
RetrieveResultEncryptedOnly(d, key) ==
    IF ~d.exists THEN [secret |-> NilSecret, err |-> ErrBucketNotFound]
    ELSE LET data == d.data[key]
             u == IF data = NoData
                  THEN [secret |-> ZeroSecret, err |-> NoErr]
                  ELSE Unmarshal(data)
         IN IF u.err # NoErr THEN [secret |-> NilSecret, err |-> u.err]
            ELSE IF u.secret.Encrypted = <<>>
                 THEN [secret |-> NilSecret, err |-> NoErr]
                 ELSE [secret |-> u.secret, err |-> NoErr]

\* Retrieve: b.Get, json.Unmarshal, then the zero-value test
RetrieveResult(d, key) ==
    IF ~d.exists THEN [secret |-> NilSecret, err |-> ErrBucketNotFound]
    ELSE LET data == d.data[key]
             u == IF data = NoData
                  THEN [secret |-> ZeroSecret, err |-> NoErr]
                  ELSE Unmarshal(data)
         IN IF u.err # NoErr THEN [secret |-> NilSecret, err |-> u.err]
            ELSE IF u.secret.Timestamp = 0 /\ u.secret.Encrypted = <<>>
                 THEN [secret |-> NilSecret, err |-> NoErr]
                 ELSE [secret |-> u.secret, err |-> NoErr]

\* Delete that reports a key that holds no record
DeleteTxStrict(d, key) ==
    IF ~d.exists THEN [db |-> d, err |-> ErrBucketNotFound]
    ELSE IF d.data[key] = NoData THEN [db |-> d, err |-> "key not found"]
    ELSE [db |-> [d EXCEPT !.data[key] = NoData], err |-> NoErr]

\* Delete that returns success without removing the key
DeleteTxKeep(d, key) ==
    IF ~d.exists THEN [db |-> d, err |-> ErrBucketNotFound]
    ELSE [db |-> d, err |-> NoErr]

\* Delete: b.Delete(key)
DeleteTx(d, key) ==
    IF ~d.exists THEN [db |-> d, err |-> ErrBucketNotFound]
    ELSE [db |-> [d EXCEPT !.data[key] = NoData], err |-> NoErr]

\* the callback with the comparison turned around
keysToDeleteNewer(d, cutoff) ==
    { k \in Keys : /\ d.data[k] # NoData
                   /\ Unmarshal(d.data[k]).err = NoErr
                   /\ Unmarshal(d.data[k]).secret.Timestamp > cutoff }

\* the callback when the Unmarshal error is not checked: the zero Secret is compared
keysToDeleteUnchecked(d, cutoff) ==
    { k \in Keys : /\ d.data[k] # NoData
                   /\ Unmarshal(d.data[k]).secret.Timestamp < cutoff }

\* the ForEach callback of DeleteExpired: the keys collected for deletion
keysToDelete(d, cutoff) ==
    { k \in Keys : /\ d.data[k] # NoData
                   /\ Unmarshal(d.data[k]).err = NoErr
                   /\ Unmarshal(d.data[k]).secret.Timestamp < cutoff }

\* the db.Update transaction of DeleteExpired
DeleteExpiredTx(d, cutoff) ==
    IF ~d.exists THEN [db |-> d, count |-> 0, err |-> ErrBucketNotFound]
    ELSE LET ks == keysToDelete(d, cutoff)
         IN [db |-> [d EXCEPT !.data = [k \in Keys |-> IF k \in ks THEN NoData ELSE d.data[k]]],
             count |-> Cardinality(ks), err |-> NoErr]

(***************************************************************************)
(* State machine of the storage API.                                       *)
(***************************************************************************)
Readers == {"r1", "r2"}

NoReads == [r \in Readers |-> [pc |-> "idle", secret |-> NilSecret, out |-> "none"]]

NoCipher == [pc |-> "unused"]

NoView == [exists |-> FALSE, data |-> EmptyBucket]

\* a call that has not begun: no transaction, no arguments, no result
NoCall == [pc |-> "idle", key |-> "", encrypted |-> <<>>, view |-> NoView,
           secret |-> NilSecret, err |-> NoErr]

Calls == {"Store", "Delete", "Retrieve"}

NoTx == [c \in Calls |-> NoCall]

\* no identifier generated, none parsed
NoID == [pc |-> "unused"]

Idle == [pc |-> "idle", ttlDays |-> 0, start |-> 0, cutoff |-> 0]

Result(op, key, secret, count, err) ==
    [op |-> op, key |-> key, secret |-> secret, count |-> count, err |-> err]

Init ==
    /\ db = [exists |-> FALSE, data |-> EmptyBucket]
    /\ now = 1
    /\ sweep = Idle
    /\ ret = Result("none", "", NilSecret, 0, NoErr)
    /\ everStored = {}
    /\ rd = NoReads
    /\ tx = NoTx
    /\ id = NoID
    /\ cr = NoCipher

Tick ==
    /\ now < MaxTime
    /\ now' = now + 1
    /\ UNCHANGED <<db, sweep, ret, everStored, rd, cr, tx, id>>

InitBucket ==
    /\ db' = InitBucketTx(db).db
    /\ ret' = Result("InitBucket", "", NilSecret, 0, InitBucketTx(db).err)
    /\ UNCHANGED <<now, sweep, everStored, rd, cr, tx, id>>

Store(key, encrypted) ==
    LET r == StoreTx(db, key, encrypted, now)
    IN /\ db' = r.db
       /\ ret' = Result("Store", key, NilSecret, 0, r.err)
       /\ everStored' = IF r.err = NoErr THEN everStored \cup {key} ELSE everStored
       /\ UNCHANGED <<now, sweep, rd, cr, tx, id>>

Retrieve(key) ==
    LET r == RetrieveResult(db, key)
    IN /\ ret' = Result("Retrieve", key, r.secret, 0, r.err)
       /\ UNCHANGED <<db, now, sweep, everStored, rd, cr, tx, id>>

Delete(key) ==
    LET r == DeleteTx(db, key)
    IN /\ db' = r.db
       /\ ret' = Result("Delete", key, NilSecret, 0, r.err)
       /\ UNCHANGED <<now, sweep, everStored, rd, cr, tx, id>>

\* DeleteExpired, first statement: the cutoff is computed before db.Update is entered
DeleteExpiredCutoff(ttlDays) ==
    /\ sweep.pc = "idle"
    /\ sweep' = [pc |-> "tx", ttlDays |-> ttlDays, start |-> now,
                 cutoff |-> Cutoff(now, ttlDays)]
    /\ UNCHANGED <<db, now, ret, everStored, rd, cr, tx, id>>

\* DeleteExpired, the transaction and the return
DeleteExpired ==
    /\ sweep.pc = "tx"
    /\ LET r == DeleteExpiredTx(db, sweep.cutoff)
       IN /\ db' = r.db
          /\ ret' = Result("DeleteExpired", "", NilSecret, r.count, r.err)
    /\ sweep' = [sweep EXCEPT !.pc = "idle"]
    /\ UNCHANGED <<now, everStored, rd, cr, tx, id>>

Next ==
    \/ Tick
    \/ InitBucket
    \/ \E key \in Keys, encrypted \in Encrypteds : Store(key, encrypted)
    \/ \E key \in Keys : Retrieve(key)
    \/ \E key \in Keys : Delete(key)
    \/ \E ttlDays \in 0..MaxTtlDays : DeleteExpiredCutoff(ttlDays)
    \/ DeleteExpired

Spec == Init /\ [][Next]_vars

(***************************************************************************)
(* The storage tests plant records by writing to the bucket directly       *)
(* (b.Put inside db.Update): bytes that are not JSON, and a well-formed    *)
(* record dated 48 hours back.                                             *)
(***************************************************************************)
NotJSON == [kind |-> "raw"]

PlantedData(t) ==
    { NotJSON,
      Marshal([Timestamp |-> t - 2 * DayTicks, Encrypted |-> EncodeToString(<<7, 200>>)]) }

Put(key, data) ==
    /\ db.exists
    /\ db' = [db EXCEPT !.data[key] = data]
    /\ ret' = Result("Put", key, NilSecret, 0, NoErr)
    /\ UNCHANGED <<now, sweep, everStored, rd, cr, tx, id>>

NextRaw ==
    \/ Next
    \/ \E key \in Keys : \E data \in PlantedData(now) : Put(key, data)

SpecRaw == Init /\ [][NextRaw]_vars

(***************************************************************************)
(* Properties of the storage engine.                                       *)
(***************************************************************************)
NotFound == [secret |-> NilSecret, err |-> NoErr]

WellFormed(data) == data # NoData /\ data.kind = "json"

Poison(data) == data # NoData /\ data.kind # "json"

\* the step that runs the transaction of DeleteExpired on an initialised bucket
SweepStep == sweep.pc = "tx" /\ sweep'.pc = "idle" /\ db.exists

\* the records that are older than maxAgeDays days when DeleteExpired is called
ExpiredAtCall ==
    { k \in Keys : /\ WellFormed(db.data[k])
                   /\ db.data[k].Timestamp < sweep.start - sweep.ttlDays * DayTicks }

Removed == { k \in Keys : db.data[k] # NoData /\ db'.data[k] = NoData }

\* C2: a successful Delete(k) leaves Retrieve(k) at not found (nil, no error), and
\* a key that is not found becomes found again only by a step that is a Store on
\* that key.
BurnIsPermanent ==
    [][\A k \in Keys :
        /\ (ret'.op = "Delete" /\ ret'.key = k /\ ret'.err = NoErr)
              => RetrieveResult(db', k) = NotFound
        /\ (RetrieveResult(db, k) = NotFound /\ RetrieveResult(db', k) # NotFound)
              => (ret'.op = "Store" /\ ret'.key = k /\ ret'.err = NoErr)]_vars

\* C2 witness: a key that was stored has just been deleted and is not found
BurnedAfterStore ==
    /\ ret.op = "Delete" /\ ret.err = NoErr
    /\ ret.key \in everStored
    /\ RetrieveResult(db, ret.key) = NotFound

\* C3 as stated: whenever a record is older than the time-to-live, Retrieve on its
\* key returns not found, sweep or no sweep.
ExpiredNeverRetrievable ==
    \A k \in Keys : \A ttlDays \in 1..MaxTtlDays :
        (db.exists /\ WellFormed(db.data[k])
             /\ now - db.data[k].Timestamp > ttlDays * DayTicks)
          => RetrieveResult(db, k) = NotFound

\* C3 amended: once the transaction of a sweep DeleteExpired(ttl) has run, Retrieve
\* returns not found for every record that was older than ttl days when the sweep
\* was called.
ExpiredGoneAfterSweep ==
    [][SweepStep => \A k \in ExpiredAtCall : RetrieveResult(db', k) = NotFound]_vars

\* C3 witness: a sweep with a one-day time-to-live has just removed a record
SweptExpired ==
    /\ ret.op = "DeleteExpired" /\ ret.err = NoErr /\ ret.count >= 1
    /\ sweep.pc = "idle" /\ sweep.ttlDays = 1

\* C8: DeleteExpired(maxAgeDays) removes exactly the well-formed records older than
\* now minus maxAgeDays days, leaves every other record as it was, and returns the
\* number of records it removed.
DeleteExpiredExact ==
    [][SweepStep =>
        /\ ret'.err = NoErr
        /\ \A k \in Keys :
              db'.data[k] = IF k \in ExpiredAtCall THEN NoData ELSE db.data[k]
        /\ ret'.count = Cardinality(Removed)]_vars

\* C9: a record that cannot be deserialized is left in place by the sweep and is
\* not counted, the sweep returns no error, and every well-formed record that was
\* expired when the sweep was called is deleted by it.
PoisonTolerance ==
    [][SweepStep =>
        /\ ret'.err = NoErr
        /\ \A k \in Keys : Poison(db.data[k]) => db'.data[k] = db.data[k]
        /\ ret'.count = Cardinality(Removed)
        /\ ret'.count <= Cardinality({ k \in Keys : WellFormed(db.data[k]) })
        /\ \A k \in ExpiredAtCall : db'.data[k] = NoData]_vars

\* C9 witness: a sweep has just deleted a record while a poison record stays
SweptAroundPoison ==
    /\ ret.op = "DeleteExpired" /\ ret.err = NoErr /\ ret.count >= 1
    /\ \E k \in Keys : Poison(db.data[k])

\* C10: with the bucket in place, Retrieve(k) returns (nil, no error) exactly when
\* no record is stored under k; a key stored and then deleted answers as a key that
\* was never stored; a key that holds a record gives a non-nil Secret.
RetrieveNilIffAbsent ==
    db.exists =>
        /\ \A k \in Keys :
              /\ (RetrieveResult(db, k) = NotFound) <=> (db.data[k] = NoData)
              /\ db.data[k] # NoData => RetrieveResult(db, k).secret # NilSecret
        /\ \A k1 \in everStored : \A k2 \in Keys \ everStored :
              db.data[k1] = NoData => RetrieveResult(db, k1) = RetrieveResult(db, k2)

\* C10 witness: Retrieve has just answered not found for a key that was stored and
\* deleted, another key was never stored, and both are absent
DeletedAndNeverStored ==
    /\ db.exists
    /\ ret.op = "Retrieve" /\ ret.secret = NilSecret /\ ret.err = NoErr
    /\ ret.key \in everStored
    /\ \E k2 \in Keys \ everStored : db.data[k2] = NoData

(***************************************************************************)
(* The cipher of crypto.go (AES-256-GCM keyed by scrypt).  Strings and     *)
(* byte slices are sequences of byte values.  The primitives are ideal:    *)
(* scrypt is injective in (password, salt); a ciphertext byte is the       *)
(* keystream byte of (key, nonce, position) xor a known value x; a tag     *)
(* byte is byte j of the tag of (key, nonce, body) xor x, and differs from *)
(* every byte that was not computed from the same (key, nonce, body).      *)
(***************************************************************************)
KeyLength == 8
PasswordLength == 32
NonceLength == 16
SaltLength == 16
FullIDLength == KeyLength + PasswordLength + NonceLength + SaltLength
gcmNonceSize == 12
gcmTagSize == 16

ErrInvalidCiphertext == "invalid ciphertext"
ErrEmptyPlaintext == "plaintext cannot be empty"
ErrDecryptionFailed == "decryption failed: authentication error"
ErrNonceTooShort == "nonce too short"
ErrOpen == "cipher: message authentication failed"

Garbage == 0 - 1        \* a plaintext byte decrypted under the wrong keystream

Lit(x) == [kind |-> "lit", x |-> x]

CtrByte(key, nonceBytes, i, x) ==
    [kind |-> "ctr", key |-> key, nonce |-> nonceBytes, i |-> i, x |-> x]

TagByte(key, nonceBytes, body, j) ==
    [kind |-> "tag", key |-> key, nonce |-> nonceBytes, body |-> body, j |-> j, x |-> 0]

\* scrypt.Key without the salt
deriveKeyNoSalt(password, salt) == <<password, <<>>>>

\* deriveKey: scrypt.Key(password, salt, N, r, p, 32)
deriveKey(password, salt) == <<password, salt>>

\* aesGCM.Seal(nil, nonceBytes, plaintext, nil): the encrypted bytes, then the tag
Seal(key, nonceBytes, plaintext) ==
    LET body == [i \in 1..Len(plaintext) |-> CtrByte(key, nonceBytes, i, plaintext[i])]
    IN body \o [j \in 1..gcmTagSize |-> TagByte(key, nonceBytes, body, j)]

\* the plaintext byte under ciphertext byte c at position i
CtrXor(key, nonceBytes, i, c) ==
    IF c.kind = "ctr" /\ c.key = key /\ c.nonce = nonceBytes /\ c.i = i
    THEN c.x ELSE Garbage

\* aesGCM.Open(nil, nonceBytes, ciphertext, nil)
Open(key, nonceBytes, ciphertext) ==
    IF Len(ciphertext) < gcmTagSize THEN [plaintext |-> <<>>, err |-> ErrOpen]
    ELSE LET n == Len(ciphertext) - gcmTagSize
             body == SubSeq(ciphertext, 1, n)
             tag == SubSeq(ciphertext, n + 1, Len(ciphertext))
         IN IF tag # [j \in 1..gcmTagSize |-> TagByte(key, nonceBytes, body, j)]
            THEN [plaintext |-> <<>>, err |-> ErrOpen]
            ELSE [plaintext |-> [i \in 1..n |-> CtrXor(key, nonceBytes, i, body[i])],
                  err |-> NoErr]

\* Encrypt under the nonce cut to one byte less than the cipher takes
EncryptShorterNonce(plaintext, password, nonce, salt) ==
    IF Len(plaintext) = 0 THEN [ciphertext |-> <<>>, err |-> ErrEmptyPlaintext]
    ELSE LET aesKey == deriveKey(password, salt)
         IN IF Len(nonce) < gcmNonceSize
            THEN [ciphertext |-> <<>>, err |-> ErrNonceTooShort]
            ELSE [ciphertext |-> Seal(aesKey, SubSeq(nonce, 1, gcmNonceSize - 1), plaintext),
                  err |-> NoErr]

\* Encrypt that looks at the nonce before it looks at the plaintext
EncryptNonceFirst(plaintext, password, nonce, salt) ==
    IF Len(nonce) < gcmNonceSize THEN [ciphertext |-> <<>>, err |-> ErrNonceTooShort]
    ELSE IF Len(plaintext) = 0 THEN [ciphertext |-> <<>>, err |-> ErrEmptyPlaintext]
    ELSE [ciphertext |-> Seal(deriveKey(password, salt),
                              SubSeq(nonce, 1, gcmNonceSize), plaintext),
          err |-> NoErr]

\* Encrypt
Encrypt(plaintext, password, nonce, salt) ==
    IF Len(plaintext) = 0 THEN [ciphertext |-> <<>>, err |-> ErrEmptyPlaintext]
    ELSE LET aesKey == deriveKey(password, salt)
         IN IF Len(nonce) < gcmNonceSize
            THEN [ciphertext |-> <<>>, err |-> ErrNonceTooShort]
            ELSE [ciphertext |-> Seal(aesKey, SubSeq(nonce, 1, gcmNonceSize), plaintext),
                  err |-> NoErr]

\* Decrypt that hands the whole nonce segment to the cipher
DecryptWholeNonce(ciphertext, password, nonce, salt) ==
    IF Len(ciphertext) = 0 THEN [plaintext |-> <<>>, err |-> ErrInvalidCiphertext]
    ELSE LET aesKey == deriveKey(password, salt)
         IN IF Len(nonce) < gcmNonceSize
            THEN [plaintext |-> <<>>, err |-> ErrNonceTooShort]
            ELSE LET o == Open(aesKey, nonce, ciphertext)
                 IN IF o.err # NoErr
                    THEN [plaintext |-> <<>>, err |-> ErrDecryptionFailed]
                    ELSE [plaintext |-> o.plaintext, err |-> NoErr]

\* Decrypt that drops the error of Open
DecryptUnchecked(ciphertext, password, nonce, salt) ==
    IF Len(ciphertext) = 0 THEN [plaintext |-> <<>>, err |-> ErrInvalidCiphertext]
    ELSE LET aesKey == deriveKey(password, salt)
         IN IF Len(nonce) < gcmNonceSize
            THEN [plaintext |-> <<>>, err |-> ErrNonceTooShort]
            ELSE LET o == Open(aesKey, SubSeq(nonce, 1, gcmNonceSize), ciphertext)
                 IN [plaintext |-> o.plaintext, err |-> NoErr]

\* Decrypt that returns the error of Open as it is
DecryptRawError(ciphertext, password, nonce, salt) ==
    IF Len(ciphertext) = 0 THEN [plaintext |-> <<>>, err |-> ErrInvalidCiphertext]
    ELSE LET aesKey == deriveKey(password, salt)
         IN IF Len(nonce) < gcmNonceSize
            THEN [plaintext |-> <<>>, err |-> ErrNonceTooShort]
            ELSE LET o == Open(aesKey, SubSeq(nonce, 1, gcmNonceSize), ciphertext)
                 IN IF o.err # NoErr
                    THEN [plaintext |-> <<>>, err |-> o.err]
                    ELSE [plaintext |-> o.plaintext, err |-> NoErr]

\* Decrypt
Decrypt(ciphertext, password, nonce, salt) ==
    IF Len(ciphertext) = 0 THEN [plaintext |-> <<>>, err |-> ErrInvalidCiphertext]
    ELSE LET aesKey == deriveKey(password, salt)
         IN IF Len(nonce) < gcmNonceSize
            THEN [plaintext |-> <<>>, err |-> ErrNonceTooShort]
            ELSE LET o == Open(aesKey, SubSeq(nonce, 1, gcmNonceSize), ciphertext)
                 IN IF o.err # NoErr
                    THEN [plaintext |-> <<>>, err |-> ErrDecryptionFailed]
                    ELSE [plaintext |-> o.plaintext, err |-> NoErr]

(***************************************************************************)
(* Inputs of the cipher.                                                   *)
(***************************************************************************)
MaxPlainLen == 2

Fill(n, c) == [i \in 1..n |-> c]

Plaintexts == { SubSeq(<<104, 105, 33, 10>>, 1, n) : n \in 0..MaxPlainLen }

\* segments as ParseID cuts them: one base string each and the strings that differ
\* from it in one position
Passwords == { Fill(PasswordLength, 97), [Fill(PasswordLength, 97) EXCEPT ![PasswordLength] = 98] }

Salts == { Fill(SaltLength, 48), [Fill(SaltLength, 48) EXCEPT ![1] = 90] }

Nonces ==
    { Fill(NonceLength, 65) } \cup
    { [Fill(NonceLength, 65) EXCEPT ![i] = 66] : i \in {gcmNonceSize, gcmNonceSize + 1} }

\* strings that no identifier yields: the nonce "short" of the tests, empty strings
ShortNonce == <<115, 104, 111, 114, 116>>

\* byte slices that no Encrypt produced: make([]byte, 10), make([]byte, 32)
ForeignCiphertexts == { Fill(10, Lit(0)), Fill(32, Lit(0)) }

\* bit b of byte x inverted
FlipBit(x, b) == IF (x \div (2 ^ b)) % 2 = 1 THEN x - 2 ^ b ELSE x + 2 ^ b

\* ciphertext c with bit b of byte i inverted
Tamper(c, i, b) == [c EXCEPT ![i] = [c[i] EXCEPT !.x = FlipBit(c[i].x, b)]]

(***************************************************************************)
(* One use of the cipher: Encrypt is called on the inputs, then Decrypt is *)
(* called on a ciphertext and three segments.                              *)
(***************************************************************************)
InitCrypto ==
    /\ db = [exists |-> FALSE, data |-> EmptyBucket]
    /\ now = 1
    /\ sweep = Idle
    /\ ret = Result("none", "", NilSecret, 0, NoErr)
    /\ everStored = {}
    /\ rd = NoReads
    /\ tx = NoTx
    /\ id = NoID
    /\ \E plaintext \in Plaintexts, password \in Passwords, salt \in Salts :
       \E nonce \in Nonces \cup {ShortNonce} :
          cr = [pc |-> "start", plaintext |-> plaintext, password |-> password,
                nonce |-> nonce, salt |-> salt]

EncryptCall ==
    /\ cr.pc = "start"
    /\ LET r == Encrypt(cr.plaintext, cr.password, cr.nonce, cr.salt)
       IN cr' = [pc |-> "encrypted", plaintext |-> cr.plaintext, password |-> cr.password,
                 nonce |-> cr.nonce, salt |-> cr.salt,
                 ciphertext |-> r.ciphertext, encErr |-> r.err]
    /\ UNCHANGED <<db, now, sweep, ret, everStored, rd, tx, id>>

DecryptCall(ciphertext, password, nonce, salt) ==
    /\ cr.pc = "encrypted"
    /\ LET r == Decrypt(ciphertext, password, nonce, salt)
       IN cr' = [pc |-> "decrypted", plaintext |-> cr.plaintext, password |-> cr.password,
                 nonce |-> cr.nonce, salt |-> cr.salt,
                 ciphertext |-> cr.ciphertext, encErr |-> cr.encErr,
                 given |-> [ciphertext |-> ciphertext, password |-> password,
                            nonce |-> nonce, salt |-> salt],
                 out |-> r.plaintext, err |-> r.err]
    /\ UNCHANGED <<db, now, sweep, ret, everStored, rd, tx, id>>

\* Decrypt on the ciphertext with one bit inverted, under the segments of Encrypt
DecryptTampered ==
    /\ cr.pc = "encrypted"
    /\ \E i \in 1..Len(cr.ciphertext) : \E b \in 0..7 :
        DecryptCall(Tamper(cr.ciphertext, i, b), cr.password, cr.nonce, cr.salt)

\* Decrypt on the ciphertext or a foreign byte slice, under any segments
DecryptWith ==
    /\ cr.pc = "encrypted"
    /\ \E ciphertext \in {cr.ciphertext} \cup ForeignCiphertexts :
       \E password \in Passwords \cup {<<>>} :
       \E nonce \in Nonces \cup {ShortNonce} :
       \E salt \in Salts \cup {<<>>} :
           DecryptCall(ciphertext, password, nonce, salt)

NextCrypto ==
    \/ EncryptCall
    \/ DecryptTampered
    \/ DecryptWith

SpecCrypto == InitCrypto /\ [][NextCrypto]_vars

(***************************************************************************)
(* Properties of the cipher.                                               *)
(***************************************************************************)
\* the three segments have the lengths ParseID gives them
WellFormedSegments(password, nonce, salt) ==
    /\ Len(password) = PasswordLength
    /\ Len(nonce) = NonceLength
    /\ Len(salt) = SaltLength

Encrypted == cr.pc \in {"encrypted", "decrypted"}

Decrypted == cr.pc = "decrypted"

SameSegments ==
    /\ cr.given.password = cr.password
    /\ cr.given.nonce = cr.nonce
    /\ cr.given.salt = cr.salt

OneBitFlipped ==
    \E i \in 1..Len(cr.ciphertext) : \E b \in 0..7 :
        cr.given.ciphertext = Tamper(cr.ciphertext, i, b)

\* C4: for a non-empty plaintext and segments of identifier lengths Encrypt
\* succeeds, and Decrypt of its ciphertext under the same segments succeeds and
\* returns the plaintext.
RoundTrip ==
    (Encrypted /\ Len(cr.plaintext) > 0
               /\ WellFormedSegments(cr.password, cr.nonce, cr.salt))
      => /\ cr.encErr = NoErr
         /\ (Decrypted /\ cr.given.ciphertext = cr.ciphertext /\ SameSegments)
               => (cr.err = NoErr /\ cr.out = cr.plaintext)

\* C4 witness: a ciphertext has been decrypted under the segments that made it
RoundTripDone ==
    /\ Decrypted /\ cr.encErr = NoErr
    /\ WellFormedSegments(cr.password, cr.nonce, cr.salt)
    /\ cr.given.ciphertext = cr.ciphertext /\ SameSegments
    /\ Len(cr.out) = MaxPlainLen

WrongSegmentsFail ==
    (Decrypted /\ cr.encErr = NoErr /\ cr.given.ciphertext = cr.ciphertext
               /\ WellFormedSegments(cr.given.password, cr.given.nonce, cr.given.salt)
               /\ ~SameSegments)
      => cr.err # NoErr

\* C6 amended: Decrypt of a valid ciphertext fails under well-formed segments that
\* differ from those of Encrypt in the password, in the salt, or in one of the
\* first gcmNonceSize characters of the nonce.
WrongUsedSegmentsFail ==
    (Decrypted /\ cr.encErr = NoErr /\ cr.given.ciphertext = cr.ciphertext
               /\ WellFormedSegments(cr.given.password, cr.given.nonce, cr.given.salt)
               /\ \/ cr.given.password # cr.password
                  \/ cr.given.salt # cr.salt
                  \/ SubSeq(cr.given.nonce, 1, gcmNonceSize)
                        # SubSeq(cr.nonce, 1, gcmNonceSize))
      => cr.err # NoErr

\* C6 witness: Decrypt has failed under a nonce that differs in character gcmNonceSize
\* only
WrongNonceRefused ==
    /\ Decrypted /\ cr.encErr = NoErr /\ cr.given.ciphertext = cr.ciphertext
    /\ cr.given.password = cr.password /\ cr.given.salt = cr.salt
    /\ Len(cr.given.nonce) = NonceLength
    /\ cr.given.nonce[gcmNonceSize] # cr.nonce[gcmNonceSize]
    /\ cr.err = ErrDecryptionFailed

RECURSIVE DecodeString(_)
DecodeString(str) ==
    IF Len(str) < 4 THEN <<>>
    ELSE IF str[3] = PadChar THEN << str[1] * 4 + str[2] \div 16 >>
    ELSE IF str[4] = PadChar THEN
        << str[1] * 4 + str[2] \div 16, (str[2] % 16) * 16 + str[3] \div 4 >>
    ELSE
        << str[1] * 4 + str[2] \div 16, (str[2] % 16) * 16 + str[3] \div 4,
           (str[3] % 4) * 64 + str[4] >>
        \o DecodeString(SubSeq(str, 5, Len(str)))

\* the one secret of the read path: its storage key and the bytes Encrypt gave
SecretKey == "k1"

SecretBytes == <<255, 0, 16>>

\* Decrypt under the segments of the identifier the readers hold
IdentifierDecrypts(ciphertext) == ciphertext = SecretBytes

InitRead ==
    /\ db = [exists |-> TRUE, data |-> EmptyBucket]
    /\ now = 1
    /\ sweep = Idle
    /\ ret = Result("none", "", NilSecret, 0, NoErr)
    /\ everStored = {}
    /\ rd = NoReads
    /\ tx = NoTx
    /\ id = NoID
    /\ cr = NoCipher

\* the create path stores the ciphertext under the key of a fresh identifier
CreateSecret ==
    /\ SecretKey \notin everStored
    /\ Store(SecretKey, SecretBytes)

ReadRetrieve(r) ==
    /\ rd[r].pc = "idle"
    /\ LET res == RetrieveResult(db, SecretKey)
       IN rd' = [rd EXCEPT ![r] =
                    IF res.err # NoErr
                    THEN [pc |-> "done", secret |-> NilSecret, out |-> "error"]
                    ELSE IF res.secret = NilSecret
                    THEN [pc |-> "done", secret |-> NilSecret, out |-> "not found"]
                    ELSE [pc |-> "retrieved", secret |-> res.secret, out |-> "none"]]
    /\ UNCHANGED <<db, now, sweep, ret, everStored, cr, tx, id>>

ReadDecrypt(r) ==
    /\ rd[r].pc = "retrieved"
    /\ rd' = [rd EXCEPT ![r] =
                 IF IdentifierDecrypts(DecodeString(rd[r].secret.Encrypted))
                 THEN [pc |-> "decrypted", secret |-> rd[r].secret, out |-> "none"]
                 ELSE [pc |-> "done", secret |-> NilSecret, out |-> "not found"]]
    /\ UNCHANGED <<db, now, sweep, ret, everStored, cr, tx, id>>

ReadDelete(r) ==
    /\ rd[r].pc = "decrypted"
    /\ LET res == DeleteTx(db, SecretKey)
       IN /\ db' = res.db
          /\ rd' = [rd EXCEPT ![r] =
                       [pc |-> "done", secret |-> NilSecret,
                        out |-> IF res.err = NoErr THEN "plaintext" ELSE "error"]]
    /\ UNCHANGED <<now, sweep, ret, everStored, cr, tx, id>>

NextRead ==
    \/ Tick
    \/ CreateSecret
    \/ \E r \in Readers : ReadRetrieve(r)
    \/ \E r \in Readers : ReadDecrypt(r)
    \/ \E r \in Readers : ReadDelete(r)
    \/ \E ttlDays \in 0..MaxTtlDays : DeleteExpiredCutoff(ttlDays)
    \/ DeleteExpired

SpecRead == InitRead /\ [][NextRead]_vars

\* C1: of the concurrent reads of one stored secret at most one hands out the
\* plaintext.
AtMostOneRead ==
    Cardinality({ r \in Readers : rd[r].out = "plaintext" }) <= 1

(***************************************************************************)
(* Properties of the storage engine: errors, overwriting, idempotence.     *)
(***************************************************************************)
\* C11: whenever the bucket exists, a Retrieve returns no error, whatever the key
\* and whatever the bucket holds, a payload that is not JSON included.
RetrieveFailsOnlyWithoutBucket ==
    (ret.op = "Retrieve" /\ db.exists) => ret.err = NoErr

\* C12: after a Store(key, encrypted) on an initialised bucket Retrieve(key) gives
\* a record whose Encrypted field decodes to encrypted byte for byte, whatever was
\* under the key before; the record under a key stays as it is in every step that
\* is not a Store or a Delete on that key or the transaction of DeleteExpired; a
\* Retrieve leaves the database unchanged and a repeated Retrieve answers the same.
LatestWrite ==
    [][/\ \A key \in Keys : \A encrypted \in Encrypteds :
            (db.exists /\ Store(key, encrypted)) =>
                LET r == RetrieveResult(db', key)
                IN /\ r.err = NoErr
                   /\ r.secret # NilSecret
                   /\ DecodeString(r.secret.Encrypted) = encrypted
       /\ \A key \in Keys :
            (/\ \A encrypted \in Encrypteds : ~Store(key, encrypted)
             /\ ~Delete(key)
             /\ ~DeleteExpired) => db'.data[key] = db.data[key]
       /\ \A key \in Keys :
            Retrieve(key) =>
                /\ db' = db
                /\ (ret.op = "Retrieve" /\ ret.key = key) => ret' = ret]_vars

\* C12 witness: after the clock moved on Retrieve has returned a record that
\* decodes to the two bytes stored and that is still in place
RetrievedLatest ==
    /\ ret.op = "Retrieve" /\ ret.err = NoErr /\ ret.secret # NilSecret
    /\ DecodeString(ret.secret.Encrypted) = <<7, 200>>
    /\ ret.secret.Timestamp > 1
    /\ db.data[ret.key] = Marshal(ret.secret)

\* C13: on an initialised bucket every Delete(k) returns no error; on a key that
\* holds no record it leaves the database as it is; and a second Delete(k) after
\* it returns no error again and changes nothing, so that two Deletes have the
\* effect and the result of one.
DeleteIdempotent ==
    [][\A k \in Keys :
        (db.exists /\ Delete(k)) =>
            /\ ret'.err = NoErr
            /\ db.data[k] = NoData => db' = db
            /\ DeleteTx(db', k) = [db |-> db', err |-> NoErr]]_vars

\* C13 witness: Delete has succeeded on a key that was never stored while the
\* other key holds a record
DeletedNeverStored ==
    /\ db.exists
    /\ ret.op = "Delete" /\ ret.err = NoErr
    /\ ret.key \notin everStored
    /\ \E k \in Keys : db.data[k] # NoData

\* C14: as long as InitBucket was never called (the bucket does not exist) each of
\* Store, Retrieve, Delete and DeleteExpired returns "bucket not found" and leaves
\* the database as it is: no bucket, no record; Retrieve returns a nil Secret and
\* DeleteExpired the count 0.
NoBucketNoEffect ==
    [][~db.exists =>
        /\ \A key \in Keys : \A encrypted \in Encrypteds :
              Store(key, encrypted) => (ret'.err = ErrBucketNotFound /\ db' = db)
        /\ \A key \in Keys :
              Retrieve(key) => /\ ret'.err = ErrBucketNotFound /\ db' = db
                               /\ ret'.secret = NilSecret
        /\ \A key \in Keys :
              Delete(key) => (ret'.err = ErrBucketNotFound /\ db' = db)
        /\ DeleteExpired => /\ ret'.err = ErrBucketNotFound /\ db' = db
                            /\ ret'.count = 0]_vars

\* C14 witness: DeleteExpired has returned "bucket not found" and the count 0 on a
\* database without the bucket
SweptWithoutBucket ==
    /\ ~db.exists /\ db.data = EmptyBucket
    /\ ret.op = "DeleteExpired" /\ ret.err = ErrBucketNotFound /\ ret.count = 0
    /\ sweep.pc = "idle" /\ sweep.ttlDays >= 1

\* C15: every InitBucket, wherever it comes in a run, returns no error and leaves
\* every record as it is, a further InitBucket after it does the same, and once
\* the bucket exists it exists in every later state.
InitBucketIdempotent ==
    [][/\ InitBucket =>
            /\ ret'.err = NoErr
            /\ db'.exists
            /\ db'.data = db.data
            /\ InitBucketTx(db') = [db |-> db', err |-> NoErr]
       /\ db.exists => db'.exists]_vars

\* C15 witness: InitBucket has returned no error on a bucket that holds a record
InitBucketAgain ==
    /\ ret.op = "InitBucket" /\ ret.err = NoErr
    /\ db.exists
    /\ \E k \in Keys : db.data[k] # NoData

(***************************************************************************)
(* Concurrent calls of Store, Delete and Retrieve.  db.Update runs its     *)
(* function on a private copy of the committed database while it holds the *)
(* writer lock, and makes the result visible at commit or drops it when    *)
(* the function returns an error; db.View runs its function on the         *)
(* database as committed when the transaction began.                       *)
(***************************************************************************)
\* the database before the calls: both keys hold a record written by Store at time 1
StoredBefore ==
    LET d0 == InitBucketTx([exists |-> FALSE, data |-> EmptyBucket]).db
        d1 == StoreTx(d0, "k1", <<255, 0, 16>>, 1).db
    IN StoreTx(d1, "k2", <<7, 200>>, 1).db

InitRace ==
    /\ db = StoredBefore
    /\ now = 2
    /\ sweep = Idle
    /\ ret = Result("none", "", NilSecret, 0, NoErr)
    /\ everStored = Keys
    /\ rd = NoReads
    /\ cr = NoCipher
    /\ tx = NoTx
    /\ id = NoID

\* a read-write transaction is open: the writer lock is taken
WriterOpen(t) == \E c \in {"Store", "Delete"} : t[c].pc \in {"open", "ran"}

\* db.View that reads the private copy of an open read-write transaction
BeginViewDirty(d, t) ==
    IF \E c \in {"Store", "Delete"} : t[c].pc = "ran"
    THEN (CHOOSE v \in { t[c].view : c \in { w \in {"Store", "Delete"} : t[w].pc = "ran" } } : TRUE)
    ELSE d

\* db.View: the database the function of a read-only transaction reads
BeginView(d, t) == d

\* db.Update: the private copy the function of a read-write transaction works on
BeginUpdate(d, t) == d

\* Store enters db.Update
StoreBegin(key, encrypted) ==
    /\ tx["Store"].pc = "idle"
    /\ ~WriterOpen(tx)
    /\ tx' = [tx EXCEPT !["Store"] =
                 [NoCall EXCEPT !.pc = "open", !.key = key, !.encrypted = encrypted,
                                !.view = BeginUpdate(db, tx)]]
    /\ UNCHANGED <<db, now, sweep, ret, everStored, rd, cr, id>>

\* the function Store hands to db.Update
StoreRun ==
    /\ tx["Store"].pc = "open"
    /\ LET c == tx["Store"]
           r == StoreTx(c.view, c.key, c.encrypted, now)
       IN tx' = [tx EXCEPT !["Store"] =
                    [c EXCEPT !.pc = "ran", !.view = r.db, !.err = r.err,
                              !.secret = IF r.err = NoErr
                                         THEN Unmarshal(r.db.data[c.key]).secret
                                         ELSE NilSecret]]
    /\ UNCHANGED <<db, now, sweep, ret, everStored, rd, cr, id>>

\* db.Update commits, or rolls back on an error, and Store returns
StoreCommit ==
    /\ tx["Store"].pc = "ran"
    /\ LET c == tx["Store"]
       IN /\ db' = IF c.err = NoErr THEN c.view ELSE db
          /\ ret' = Result("Store", c.key, NilSecret, 0, c.err)
          /\ everStored' = IF c.err = NoErr THEN everStored \cup {c.key} ELSE everStored
          /\ tx' = [tx EXCEPT !["Store"] = [c EXCEPT !.pc = "done", !.view = NoView]]
    /\ UNCHANGED <<now, sweep, rd, cr, id>>

\* Delete enters db.Update
DeleteBegin(key) ==
    /\ tx["Delete"].pc = "idle"
    /\ ~WriterOpen(tx)
    /\ tx' = [tx EXCEPT !["Delete"] =
                 [NoCall EXCEPT !.pc = "open", !.key = key, !.view = BeginUpdate(db, tx)]]
    /\ UNCHANGED <<db, now, sweep, ret, everStored, rd, cr, id>>

\* the function Delete hands to db.Update
DeleteRun ==
    /\ tx["Delete"].pc = "open"
    /\ LET c == tx["Delete"]
           r == DeleteTx(c.view, c.key)
       IN tx' = [tx EXCEPT !["Delete"] = [c EXCEPT !.pc = "ran", !.view = r.db, !.err = r.err]]
    /\ UNCHANGED <<db, now, sweep, ret, everStored, rd, cr, id>>

\* db.Update commits, or rolls back on an error, and Delete returns
DeleteCommit ==
    /\ tx["Delete"].pc = "ran"
    /\ LET c == tx["Delete"]
       IN /\ db' = IF c.err = NoErr THEN c.view ELSE db
          /\ ret' = Result("Delete", c.key, NilSecret, 0, c.err)
          /\ tx' = [tx EXCEPT !["Delete"] = [c EXCEPT !.pc = "done", !.view = NoView]]
    /\ UNCHANGED <<now, sweep, everStored, rd, cr, id>>

\* Retrieve enters db.View
RetrieveBegin(key) ==
    /\ tx["Retrieve"].pc = "idle"
    /\ tx' = [tx EXCEPT !["Retrieve"] =
                 [NoCall EXCEPT !.pc = "open", !.key = key, !.view = BeginView(db, tx)]]
    /\ UNCHANGED <<db, now, sweep, ret, everStored, rd, cr, id>>

\* the function Retrieve hands to db.View, the end of the transaction, the return
RetrieveRun ==
    /\ tx["Retrieve"].pc = "open"
    /\ LET c == tx["Retrieve"]
           r == RetrieveResult(c.view, c.key)
       IN /\ tx' = [tx EXCEPT !["Retrieve"] =
                       [c EXCEPT !.pc = "done", !.view = NoView,
                                 !.secret = r.secret, !.err = r.err]]
          /\ ret' = Result("Retrieve", c.key, r.secret, 0, r.err)
    /\ UNCHANGED <<db, now, sweep, everStored, rd, cr, id>>

NextRace ==
    \/ Tick
    \/ \E key \in Keys, encrypted \in Encrypteds : StoreBegin(key, encrypted)
    \/ StoreRun
    \/ StoreCommit
    \/ \E key \in Keys : DeleteBegin(key)
    \/ DeleteRun
    \/ DeleteCommit
    \/ \E key \in Keys : RetrieveBegin(key)
    \/ RetrieveRun

SpecRace == InitRace /\ [][NextRace]_vars

(***************************************************************************)
(* Properties of concurrent calls.                                         *)
(***************************************************************************)
Began(c, k) == tx[c].pc # "idle" /\ tx[c].key = k

Returned(c) == tx[c].pc = "done"

\* C16: when a Delete and a Retrieve on the same key run concurrently, in any
\* interleaving of their transactions, and no Store on that key is under way, the
\* Retrieve returns without error either the complete record the last Store wrote
\* or nil, and once the Delete has returned there is no record under the key.
NoTornRead ==
    \A k \in Keys :
        (Began("Delete", k) /\ Began("Retrieve", k) /\ ~Began("Store", k)) =>
            /\ Returned("Retrieve") =>
                  /\ tx["Retrieve"].err = NoErr
                  /\ \/ tx["Retrieve"].secret = NilSecret
                     \/ tx["Retrieve"].secret = Unmarshal(StoredBefore.data[k]).secret
            /\ Returned("Delete") =>
                  /\ tx["Delete"].err = NoErr
                  /\ db.data[k] = NoData

\* C16 witness: a Retrieve has returned the whole record of a key whose Delete has
\* returned too, and the record is gone
ReadThenNotFound ==
    \E k \in Keys :
        /\ Began("Delete", k) /\ Began("Retrieve", k) /\ ~Began("Store", k)
        /\ Returned("Retrieve") /\ Returned("Delete")
        /\ tx["Retrieve"].secret = Unmarshal(StoredBefore.data[k]).secret
        /\ DecodeString(tx["Retrieve"].secret.Encrypted) \in Encrypteds
        /\ db.data[k] = NoData

\* C17: a Store and a Delete on different keys do not interfere.  The commit of a
\* Store changes the record of its key only and the commit of a Delete the record
\* of its key only; when both have returned, in whatever order and interleaving
\* they ran, the store is the one before the calls with the stored record under
\* the one key and no record under the other; and a Retrieve running next to them
\* returns what a committed state of the database gives for its key (the state
\* before the calls or the state now), never a write that is not committed.
DisjointKeysNoInterference ==
    [][/\ StoreCommit =>
            \A k \in Keys \ {tx["Store"].key} : db'.data[k] = db.data[k]
       /\ DeleteCommit =>
            \A k \in Keys \ {tx["Delete"].key} : db'.data[k] = db.data[k]
       /\ (/\ tx'["Store"].pc = "done" /\ tx'["Delete"].pc = "done"
           /\ tx'["Store"].key # tx'["Delete"].key) =>
            /\ db' = [StoredBefore EXCEPT
                         !.data[tx'["Store"].key] = Marshal(tx'["Store"].secret),
                         !.data[tx'["Delete"].key] = NoData]
            /\ DecodeString(tx'["Store"].secret.Encrypted) = tx'["Store"].encrypted
       /\ (/\ RetrieveRun
           /\ ~(Began("Store", tx["Retrieve"].key) /\ Began("Delete", tx["Retrieve"].key))) =>
            LET res == [secret |-> ret'.secret, err |-> ret'.err]
            IN \/ res = RetrieveResult(StoredBefore, tx["Retrieve"].key)
               \/ res = RetrieveResult(db, tx["Retrieve"].key)]_vars

\* C17 witness: a Store and a Delete on different keys and a Retrieve have all
\* returned; the one key holds the stored record and the other none
StoreAndDeleteDone ==
    /\ Returned("Store") /\ Returned("Delete") /\ Returned("Retrieve")
    /\ tx["Store"].key # tx["Delete"].key
    /\ tx["Store"].encrypted # <<>>
    /\ db.data[tx["Store"].key] = Marshal(tx["Store"].secret)
    /\ db.data[tx["Delete"].key] = NoData

(***************************************************************************)
(* Identifiers of crypto.go.  A string is the sequence of its bytes; a     *)
(* big.Int is the sequence of its big-endian bytes.                        *)
(***************************************************************************)
ErrInvalidIDLength == "invalid ID length: expected 72 characters"
ErrInvalidIDCharacters == "invalid ID: contains non-base62 characters"
ErrRandom == "failed to generate random bytes"

\* "0123456789abcdefghijklmnopqrstuvwxyzABCDEFGHIJKLMNOPQRSTUVWXYZ"
base62Alphabet ==
    [i \in 1..62 |-> IF i <= 10 THEN 47 + i ELSE IF i <= 36 THEN 86 + i ELSE 28 + i]

isBase62Char(c) ==
    \/ (c >= 48 /\ c <= 57)
    \/ (c >= 97 /\ c <= 122)
    \/ (c >= 65 /\ c <= 90)

\* num.DivMod(num, base, mod): long division of bytes lo..hi of num, the most
\* significant first, with carry the remainder of the bytes before lo
RECURSIVE LongDiv(_, _, _, _, _)
LongDiv(num, base, lo, hi, carry) ==
    IF lo > hi THEN [quot |-> <<>>, mod |-> carry]
    ELSE IF lo = hi
    THEN [quot |-> << (carry * 256 + num[lo]) \div base >>,
          mod |-> (carry * 256 + num[lo]) % base]
    ELSE LET mid == (lo + hi) \div 2
             left == LongDiv(num, base, lo, mid, carry)
             right == LongDiv(num, base, mid + 1, hi, left.mod)
         IN [quot |-> left.quot \o right.quot, mod |-> right.mod]

DivMod(num, base) == LongDiv(num, base, 1, Len(num), 0)

\* num.Cmp(zero) = 0
IsZero(num) == \A i \in 1..Len(num) : num[i] = 0

\* the loop of base62Encode, two turns at a time: result gets the digits of num,
\* the least significant first
RECURSIVE Digits(_, _)
Digits(num, result) ==
    IF IsZero(num) THEN result
    ELSE LET first == DivMod(num, 62)
             r1 == Append(result, base62Alphabet[first.mod + 1])
         IN IF IsZero(first.quot) THEN r1
            ELSE LET second == DivMod(first.quot, 62)
                 IN Digits(second.quot, Append(r1, base62Alphabet[second.mod + 1]))

\* the second loop of base62Encode: the zero bytes input begins with
RECURSIVE LeadingZeroBytes(_)
LeadingZeroBytes(input) ==
    IF Len(input) = 0 \/ input[1] # 0 THEN 0
    ELSE 1 + LeadingZeroBytes(Tail(input))

Reverse(s) == [i \in 1..Len(s) |-> s[Len(s) + 1 - i]]

\* base62Encode without the characters for the leading zero bytes
base62EncodeNoZeros(input) ==
    IF Len(input) = 0 THEN <<>>
    ELSE Reverse(Digits(input, <<>>))

base62Encode(input) ==
    IF Len(input) = 0 THEN <<>>
    ELSE Reverse(Digits(input, <<>>) \o Fill(LeadingZeroBytes(input), base62Alphabet[1]))

\* generateRandomBase62 that returns the whole encoding
generateRandomBase62Whole(length, randomBytes) ==
    LET encoded == base62Encode(randomBytes)
    IN IF Len(encoded) < length
       THEN [retry |-> TRUE, s |-> <<>>]
       ELSE [retry |-> FALSE, s |-> encoded]

\* generateRandomBase62 on the bytes rand.Read gave: the segment, or the call again
generateRandomBase62(length, randomBytes) ==
    LET encoded == base62Encode(randomBytes)
    IN IF Len(encoded) < length
       THEN [retry |-> TRUE, s |-> <<>>]
       ELSE [retry |-> FALSE, s |-> SubSeq(encoded, 1, length)]

\* utf8 decoding as "for _, c := range s" does it: the rune at byte i and its width
RuneError == 65533

Cont(s, i) == i <= Len(s) /\ s[i] >= 128 /\ s[i] <= 191

DecodeRune(s, i) ==
    LET b == s[i]
    IN IF b < 128 THEN [r |-> b, w |-> 1]
       ELSE IF b >= 194 /\ b <= 223 /\ Cont(s, i + 1)
       THEN [r |-> (b - 192) * 64 + (s[i + 1] - 128), w |-> 2]
       ELSE IF /\ b >= 224 /\ b <= 239 /\ Cont(s, i + 1) /\ Cont(s, i + 2)
               /\ (b = 224 => s[i + 1] >= 160)
               /\ (b = 237 => s[i + 1] <= 159)
       THEN [r |-> (b - 224) * 4096 + (s[i + 1] - 128) * 64 + (s[i + 2] - 128), w |-> 3]
       ELSE IF /\ b >= 240 /\ b <= 244
               /\ Cont(s, i + 1) /\ Cont(s, i + 2) /\ Cont(s, i + 3)
               /\ (b = 240 => s[i + 1] >= 144)
               /\ (b = 244 => s[i + 1] <= 143)
       THEN [r |-> (b - 240) * 262144 + (s[i + 1] - 128) * 4096
                     + (s[i + 2] - 128) * 64 + (s[i + 3] - 128), w |-> 4]
       ELSE [r |-> RuneError, w |-> 1]

\* the runes the range loop yields from byte i on, two turns of the loop at a time
RECURSIVE RunesFrom(_, _, _)
RunesFrom(s, i, runes) ==
    IF i > Len(s) THEN runes
    ELSE LET d1 == DecodeRune(s, i)
         IN IF i + d1.w > Len(s) THEN Append(runes, d1.r)
            ELSE LET d2 == DecodeRune(s, i + d1.w)
                 IN RunesFrom(s, i + d1.w + d2.w, runes \o << d1.r, d2.r >>)

Runes(s) == RunesFrom(s, 1, <<>>)

\* byte(c) of a rune c
Byte(c) == c % 256

NoSegments == [key |-> <<>>, password |-> <<>>, nonce |-> <<>>, salt |-> <<>>]

\* ParseID that cuts the password one byte early
ParseIDShifted(fullID) ==
    IF Len(fullID) # FullIDLength
    THEN [seg |-> NoSegments, err |-> ErrInvalidIDLength]
    ELSE IF LET runes == Runes(fullID)
            IN \E j \in 1..Len(runes) : ~isBase62Char(Byte(runes[j]))
    THEN [seg |-> NoSegments, err |-> ErrInvalidIDCharacters]
    ELSE [seg |-> [key |-> SubSeq(fullID, 1, KeyLength),
                   password |-> SubSeq(fullID, KeyLength, KeyLength + PasswordLength - 1),
                   nonce |-> SubSeq(fullID, KeyLength + PasswordLength + 1,
                                    KeyLength + PasswordLength + NonceLength),
                   salt |-> SubSeq(fullID, KeyLength + PasswordLength + NonceLength + 1,
                                   FullIDLength)],
          err |-> NoErr]

\* ParseID
ParseID(fullID) ==
    IF Len(fullID) # FullIDLength
    THEN [seg |-> NoSegments, err |-> ErrInvalidIDLength]
    ELSE IF LET runes == Runes(fullID)
            IN \E j \in 1..Len(runes) : ~isBase62Char(Byte(runes[j]))
    THEN [seg |-> NoSegments, err |-> ErrInvalidIDCharacters]
    ELSE [seg |-> [key |-> SubSeq(fullID, 1, KeyLength),
                   password |-> SubSeq(fullID, KeyLength + 1, KeyLength + PasswordLength),
                   nonce |-> SubSeq(fullID, KeyLength + PasswordLength + 1,
                                    KeyLength + PasswordLength + NonceLength),
                   salt |-> SubSeq(fullID, KeyLength + PasswordLength + NonceLength + 1,
                                   FullIDLength)],
          err |-> NoErr]

\* ValidateID that tests the bytes of the string, not its runes
ValidateIDBytes(s) ==
    /\ Len(s) = FullIDLength
    /\ \A j \in 1..Len(s) : isBase62Char(s[j])

\* ValidateID
ValidateID(s) ==
    /\ Len(s) = FullIDLength
    /\ LET runes == Runes(s)
       IN \A j \in 1..Len(runes) : isBase62Char(Byte(runes[j]))

(***************************************************************************)
(* GenerateID, one call of generateRandomBase62 at a time, then ParseID    *)
(* and ValidateID on the identifier and on hand-written strings.           *)
(***************************************************************************)
SegmentLengths == << KeyLength, PasswordLength, NonceLength, SaltLength >>

\* what rand.Read can put into n bytes: zeros, ones, a small and a large number
\* with zero bytes, a mixed pattern
RandomReads(n) ==
    { Fill(n, 0), Fill(n, 255),
      [Fill(n, 0) EXCEPT ![n] = 1], [Fill(n, 0) EXCEPT ![1] = 1],
      [i \in 1..n |-> (i * 37) % 256] }

\* strings handed to ParseID and ValidateID that GenerateID did not make
IDInputs ==
    { << 49, 50, 51, 52, 53, 54, 55, 56 >> \o Fill(32, 97) \o Fill(16, 98) \o Fill(16, 99),
      <<>>,
      << 115, 104, 111, 114, 116 >>,
      Fill(73, 97),
      Fill(73, 33),
      Fill(72, 33),
      Fill(35, 97) \o << 32 >> \o Fill(36, 98),
      Fill(71, 97) \o << 255 >>,
      Fill(70, 97) \o << 196, 177 >>,
      Fill(7, 97) \o << 196, 177 >> \o Fill(63, 97) }

NoParse == [seg |-> NoSegments, err |-> NoErr]

NewID == [pc |-> "generating", segs |-> <<>>, fullID |-> <<>>, err |-> NoErr,
          call |-> "none", input |-> <<>>, parsed |-> NoParse, valid |-> FALSE]

InitID ==
    /\ db = [exists |-> FALSE, data |-> EmptyBucket]
    /\ now = 1
    /\ sweep = Idle
    /\ ret = Result("none", "", NilSecret, 0, NoErr)
    /\ everStored = {}
    /\ rd = NoReads
    /\ cr = NoCipher
    /\ tx = NoTx
    /\ id = NewID

\* GenerateID: the next call of generateRandomBase62; after the fourth the return
GenerateSegment(randomBytes) ==
    /\ id.pc = "generating"
    /\ Len(randomBytes) = SegmentLengths[Len(id.segs) + 1] + 8
    /\ LET r == generateRandomBase62(SegmentLengths[Len(id.segs) + 1], randomBytes)
           segs == Append(id.segs, r.s)
       IN id' = IF r.retry THEN id
                ELSE IF Len(segs) < 4 THEN [id EXCEPT !.segs = segs]
                ELSE [id EXCEPT !.pc = "generated", !.segs = segs,
                                !.fullID = segs[1] \o segs[2] \o segs[3] \o segs[4]]
    /\ UNCHANGED <<db, now, sweep, ret, everStored, rd, cr, tx>>

\* GenerateID when rand.Read fails: empty strings and the error
GenerateFail ==
    /\ id.pc = "generating"
    /\ id' = [id EXCEPT !.pc = "failed", !.segs = << <<>>, <<>>, <<>>, <<>> >>,
                        !.err = ErrRandom]
    /\ UNCHANGED <<db, now, sweep, ret, everStored, rd, cr, tx>>

ParseIDCall(input) ==
    /\ id.pc = "generated"
    /\ id' = [id EXCEPT !.call = "ParseID", !.input = input, !.parsed = ParseID(input),
                        !.valid = FALSE]
    /\ UNCHANGED <<db, now, sweep, ret, everStored, rd, cr, tx>>

ValidateIDCall(input) ==
    /\ id.pc = "generated"
    /\ id' = [id EXCEPT !.call = "ValidateID", !.input = input, !.parsed = NoParse,
                        !.valid = ValidateID(input)]
    /\ UNCHANGED <<db, now, sweep, ret, everStored, rd, cr, tx>>

\* ParseID and ValidateID on the identifier GenerateID returned
ParseGenerated == ParseIDCall(id.fullID)

ValidateGenerated == ValidateIDCall(id.fullID)

NextID ==
    \/ \E randomBytes \in UNION { RandomReads(SegmentLengths[n] + 8) : n \in 1..4 } :
          GenerateSegment(randomBytes)
    \/ GenerateFail
    \/ ParseGenerated
    \/ ValidateGenerated
    \/ \E input \in IDInputs : ParseIDCall(input)
    \/ \E input \in IDInputs : ValidateIDCall(input)

SpecID == InitID /\ [][NextID]_vars

(***************************************************************************)
(* Properties of identifiers.                                              *)
(***************************************************************************)
\* the characters 0-9, a-z, A-Z
Base62Chars == (48..57) \cup (97..122) \cup (65..90)

Generated == id.pc = "generated"

\* C18: an identifier GenerateID returned has exactly 72 characters, each of them
\* one of 0-9, a-z, A-Z, is key + password + nonce + salt in this order with
\* segments of 8, 32, 16 and 16 characters, and ValidateID accepts it.
GeneratedIDWellFormed ==
    Generated =>
        /\ Len(id.fullID) = 72
        /\ \A i \in 1..Len(id.fullID) : id.fullID[i] \in Base62Chars
        /\ Len(id.segs) = 4
        /\ id.fullID = id.segs[1] \o id.segs[2] \o id.segs[3] \o id.segs[4]
        /\ Len(id.segs[1]) = 8 /\ Len(id.segs[2]) = 32
        /\ Len(id.segs[3]) = 16 /\ Len(id.segs[4]) = 16
        /\ ValidateID(id.fullID)

\* C18 witness: ValidateID has accepted a generated identifier whose key came from
\* random bytes that begin with zero bytes and whose salt came from mixed bytes
GeneratedAndValidated ==
    /\ Generated
    /\ id.call = "ValidateID" /\ id.input = id.fullID /\ id.valid
    /\ id.segs[1] = Fill(KeyLength, 48)
    /\ id.segs[4] # Fill(SaltLength, 48) /\ id.segs[4][1] # id.segs[4][2]

\* C19: ParseID of an identifier GenerateID returned succeeds and gives back the
\* key, password, nonce and salt GenerateID returned; and whatever input ParseID
\* accepts, the four segments it returns have 8, 32, 16 and 16 bytes and their
\* concatenation is the input.
ParseInvertsConcat ==
    (Generated /\ id.call = "ParseID") =>
        /\ id.input = id.fullID =>
              /\ id.parsed.err = NoErr
              /\ id.parsed.seg = [key |-> id.segs[1], password |-> id.segs[2],
                                  nonce |-> id.segs[3], salt |-> id.segs[4]]
        /\ id.parsed.err = NoErr =>
              /\ Len(id.parsed.seg.key) = 8 /\ Len(id.parsed.seg.password) = 32
              /\ Len(id.parsed.seg.nonce) = 16 /\ Len(id.parsed.seg.salt) = 16
              /\ id.parsed.seg.key \o id.parsed.seg.password
                    \o id.parsed.seg.nonce \o id.parsed.seg.salt = id.input

\* C19 witness: ParseID has returned the segments of a generated identifier whose
\* password is not one character repeated
ParsedGenerated ==
    /\ Generated /\ id.call = "ParseID" /\ id.input = id.fullID
    /\ id.parsed.err = NoErr
    /\ id.parsed.seg.password = id.segs[2]
    /\ id.segs[2][1] # id.segs[2][2]
    /\ id.segs[1] # SubSeq(id.segs[2], 1, KeyLength)

\* C20: ParseID of an input whose length is not 72 returns ErrInvalidIDLength,
\* invalid characters or not; ParseID of an input of length 72 that contains a
\* character outside 0-9, a-z, A-Z returns ErrInvalidIDCharacters; in both cases
\* the four segments returned are empty.
MalformedRejected ==
    (Generated /\ id.call = "ParseID") =>
        /\ Len(id.input) # 72 =>
              (id.parsed.err = ErrInvalidIDLength /\ id.parsed.seg = NoSegments)
        /\ (/\ Len(id.input) = 72
            /\ LET runes == Runes(id.input)
               IN \E j \in 1..Len(runes) : runes[j] \notin Base62Chars) =>
              (id.parsed.err = ErrInvalidIDCharacters /\ id.parsed.seg = NoSegments)

\* C21: whatever string ValidateID accepts or ParseID parses without error, strings
\* with multi-byte characters included, each of its characters is one of 0-9, a-z,
\* A-Z.
AcceptedOnlyAlphabet ==
    (/\ Generated
     /\ \/ (id.call = "ValidateID" /\ id.valid)
        \/ (id.call = "ParseID" /\ id.parsed.err = NoErr)) =>
        LET runes == Runes(id.input)
        IN \A j \in 1..Len(runes) : runes[j] \in Base62Chars

(***************************************************************************)
(* Properties of the cipher: refused inputs, distinct ciphertexts.         *)
(***************************************************************************)
\* C22: Encrypt of the empty plaintext returns ErrEmptyPlaintext and no ciphertext,
\* whatever the password, the nonce and the salt are, a nonce too short for the
\* cipher included.
EmptyPlaintextRefused ==
    (Encrypted /\ Len(cr.plaintext) = 0)
      => (cr.encErr = ErrEmptyPlaintext /\ cr.ciphertext = <<>>)

\* C22 witness: Encrypt has refused the empty plaintext under a nonce shorter than
\* gcmNonceSize
EmptyRefusedShortNonce ==
    /\ Encrypted /\ Len(cr.plaintext) = 0
    /\ Len(cr.nonce) < gcmNonceSize
    /\ cr.encErr = ErrEmptyPlaintext

\* C23: Decrypt of a ciphertext that is empty or shorter than the authentication tag
\* returns ErrInvalidCiphertext.
InvalidCiphertextRefused ==
    (Decrypted /\ Len(cr.given.ciphertext) < gcmTagSize)
      => cr.err = ErrInvalidCiphertext

\* the segments of identifier lengths the model draws from
SegmentTriples ==
    { t \in Passwords \X Nonces \X Salts : WellFormedSegments(t[1], t[2], t[3]) }

\* Encrypt of the plaintext of the state under another triple of segments
EncryptUnder(t) == Encrypt(cr.plaintext, t[1], t[2], t[3])

\* C24 as stated: a plaintext Encrypt has encrypted under the segments of one
\* identifier gets another ciphertext under segments that differ in the password,
\* the nonce or the salt, and the same ciphertext under the same segments.
DistinctCiphertexts ==
    (Encrypted /\ cr.encErr = NoErr
               /\ WellFormedSegments(cr.password, cr.nonce, cr.salt))
      => \A t \in SegmentTriples :
            IF t = <<cr.password, cr.nonce, cr.salt>>
            THEN EncryptUnder(t).ciphertext = cr.ciphertext
            ELSE EncryptUnder(t).ciphertext # cr.ciphertext

\* C24 amended: the ciphertext is another one under segments that differ in the
\* password, in the salt or in one of the first gcmNonceSize characters of the
\* nonce, and the same one under segments that agree in all of these.
DistinctCiphertextsUsedSegments ==
    (Encrypted /\ cr.encErr = NoErr
               /\ WellFormedSegments(cr.password, cr.nonce, cr.salt))
      => \A t \in SegmentTriples :
            IF /\ t[1] = cr.password
               /\ t[3] = cr.salt
               /\ SubSeq(t[2], 1, gcmNonceSize) = SubSeq(cr.nonce, 1, gcmNonceSize)
            THEN EncryptUnder(t).ciphertext = cr.ciphertext
            ELSE EncryptUnder(t).ciphertext # cr.ciphertext

\* C24 witness: Encrypt has succeeded on a plaintext of full length, and a nonce
\* that differs from the one used in character gcmNonceSize only gives another
\* ciphertext
OtherNonceOtherCiphertext ==
    /\ Encrypted /\ cr.encErr = NoErr /\ Len(cr.plaintext) = MaxPlainLen
    /\ WellFormedSegments(cr.password, cr.nonce, cr.salt)
    /\ \E t \in SegmentTriples :
          /\ t[1] = cr.password /\ t[3] = cr.salt
          /\ t[2][gcmNonceSize] # cr.nonce[gcmNonceSize]
          /\ EncryptUnder(t).err = NoErr
          /\ EncryptUnder(t).ciphertext # cr.ciphertext

(***************************************************************************)
(* The distribution of the first character of a segment.  rand.Read fills  *)
(* length + 8 bytes, each value of the first byte being equally likely.    *)
(* The reads that begin with byte b >= 1 are the numbers from b followed   *)
(* by zero bytes up to b followed by bytes 255; when these two reads are   *)
(* encoded with the same number of digits and the same first digit, every  *)
(* read between them is.  The tally goes through the 256 values of the     *)
(* first byte and counts, per character, the values of the first byte all  *)
(* of whose reads give that first character (sure), and the values whose   *)
(* reads are not settled by the two ends (open).                           *)
(***************************************************************************)
\* the smallest and the largest read of length + 8 bytes that begins with byte b
FirstByteReads(length, b) ==
    << <<b>> \o Fill(length + 7, 0), <<b>> \o Fill(length + 7, 255) >>

NewTally(length) ==
    [pc |-> "tally", length |-> length, b |-> 0,
     sure |-> [c \in (48..57) \cup (97..122) \cup (65..90) |-> 0], open |-> 0]

InitTally ==
    /\ db = [exists |-> FALSE, data |-> EmptyBucket]
    /\ now = 1
    /\ sweep = Idle
    /\ ret = Result("none", "", NilSecret, 0, NoErr)
    /\ everStored = {}
    /\ rd = NoReads
    /\ cr = NoCipher
    /\ tx = NoTx
    /\ \E n \in 1..4 : id = NewTally(SegmentLengths[n])

\* generateRandomBase62 on the two ends of the reads that begin with byte id.b
TallyFirstByte ==
    /\ id.pc = "tally"
    /\ id.b <= 255
    /\ LET reads == FirstByteReads(id.length, id.b)
           lo == generateRandomBase62(id.length, reads[1])
           hi == generateRandomBase62(id.length, reads[2])
           settled == /\ ~lo.retry /\ ~hi.retry
                      /\ Len(base62Encode(reads[1])) = Len(base62Encode(reads[2]))
                      /\ lo.s[1] = hi.s[1]
       IN id' = IF settled
                THEN [id EXCEPT !.b = id.b + 1, !.sure[lo.s[1]] = id.sure[lo.s[1]] + 1]
                ELSE [id EXCEPT !.b = id.b + 1, !.open = id.open + 1]
    /\ UNCHANGED <<db, now, sweep, ret, everStored, rd, cr, tx>>

NextTally == TallyFirstByte

SpecTally == InitTally /\ [][NextTally]_vars

\* C25: at the first position of a segment every alphabet character is produced by
\* the same number of equally likely random reads.  Counted by the first random
\* byte: the values of the first byte that surely give one character are no more
\* than the values that can give another one.
FirstCharacterUniform ==
    (id.pc = "tally" /\ id.b = 256) =>
        \A c1 \in Base62Chars, c2 \in Base62Chars : id.sure[c1] <= id.sure[c2] + id.open

(***************************************************************************)
(* The HTTP handlers of main.go.  main opens the database and initialises  *)
(* the bucket, then serves requests; records come into the bucket through  *)
(* storage.Store.                                                          *)
(***************************************************************************)
NoResponse == [handler |-> "none", key |-> "", body |-> ""]

InitHTTP ==
    /\ db = [exists |-> TRUE, data |-> EmptyBucket]
    /\ now = 1
    /\ sweep = Idle
    /\ ret = Result("none", "", NilSecret, 0, NoErr)
    /\ everStored = {}
    /\ rd = NoResponse
    /\ cr = NoCipher
    /\ tx = NoTx
    /\ id = NoID

\* POST /create: fmt.Fprintf(w, "Create")
CreateHandler ==
    /\ rd' = [handler |-> "CreateHandler", key |-> "", body |-> "Create"]
    /\ UNCHANGED <<db, now, sweep, ret, everStored, cr, tx, id>>

\* GET /get/{key}: fmt.Fprintf(w, "Get")
SecretHandler(key) ==
    /\ rd' = [handler |-> "SecretHandler", key |-> key, body |-> "Get"]
    /\ UNCHANGED <<db, now, sweep, ret, everStored, cr, tx, id>>

NextHTTP ==
    \/ Tick
    \/ \E key \in Keys, encrypted \in Encrypteds : Store(key, encrypted)
    \/ CreateHandler
    \/ \E key \in Keys : SecretHandler(key)

SpecHTTP == InitHTTP /\ [][NextHTTP]_vars

\* C26: when SecretHandler has served a request for a key whose record is in the
\* store, the record is in the store no more: Retrieve of the key finds nothing.
ServedSecretBurned ==
    [][ \A key \in Keys :
          (SecretHandler(key) /\ RetrieveResult(db, key).secret # NilSecret)
            => RetrieveResult(db', key) = NotFound ]_vars

(***************************************************************************)
(* Properties of the sweep: the cutoff, sweeps and concurrent writes.      *)
(***************************************************************************)
\* C27: for every maxAgeDays >= 0 the cutoff DeleteExpired computes does not lie
\* after now, a larger maxAgeDays selects no record that a smaller one does not
\* select, and the sweep removes no record created within the last maxAgeDays days.
CutoffNeverAfterNow ==
    [][/\ (sweep.pc = "idle" /\ sweep'.pc = "tx") =>
              /\ sweep'.cutoff <= now
              /\ \A d \in 0..sweep'.ttlDays :
                    keysToDelete(db, sweep'.cutoff) \subseteq keysToDelete(db, Cutoff(now, d))
       /\ SweepStep =>
              \A k \in Removed :
                  db.data[k].Timestamp < sweep.start - sweep.ttlDays * DayTicks]_vars

\* C28: a sweep with maxAgeDays >= 1 leaves in place every record that a Store wrote
\* at or after the moment the sweep was called, whether the Store ran before the
\* cutoff was computed or between the cutoff and the transaction of the sweep,
\* and whether or not it overwrote an expired record.
FreshWriteSurvivesSweep ==
    [][(SweepStep /\ sweep.ttlDays >= 1) =>
          \A k \in Keys :
              (WellFormed(db.data[k]) /\ db.data[k].Timestamp >= sweep.start)
                 => db'.data[k] = db.data[k]]_vars

(***************************************************************************)
(* Properties of identifiers: the two validations, the generator.          *)
(***************************************************************************)
\* C29: ValidateID returns true on exactly the strings on which ParseID returns no
\* error.
ValidateIffParses ==
    /\ (Generated /\ id.call = "ValidateID")
          => (id.valid <=> ParseID(id.input).err = NoErr)
    /\ (Generated /\ id.call = "ParseID")
          => (id.parsed.err = NoErr <=> ValidateID(id.input))

\* C29 witness: ValidateID has accepted a string with a two-byte character that
\* ParseID parses, and among the strings tried is one of the right length that
\* both refuse
AcceptedAsParsed ==
    /\ Generated /\ id.call = "ValidateID" /\ id.valid
    /\ \E j \in 1..Len(id.input) : id.input[j] >= 128
    /\ ParseID(id.input).err = NoErr
    /\ \E input \in IDInputs :
          /\ Len(input) = FullIDLength
          /\ ~ValidateID(input)
          /\ ParseID(input).err = ErrInvalidIDCharacters

\* GenerateID runs on: a call of generateRandomBase62 that can return does return
SpecIDFair ==
    /\ SpecID
    /\ WF_vars(\E randomBytes \in UNION { RandomReads(SegmentLengths[n] + 8) : n \in 1..4 } :
                  GenerateSegment(randomBytes))

\* C30: base62Encode of the n bytes read yields at least n characters, all of the
\* alphabet, so that generateRandomBase62 returns exactly length characters and
\* never calls itself again; GenerateID fails only with the error of the random
\* source; and a GenerateID that has begun returns.
GenerationTerminates ==
    /\ [](id.pc = "generating" =>
            LET length == SegmentLengths[Len(id.segs) + 1]
            IN \A randomBytes \in RandomReads(length + 8) :
                  LET encoded == base62Encode(randomBytes)
                      r == generateRandomBase62(length, randomBytes)
                  IN /\ Len(encoded) >= Len(randomBytes)
                     /\ \A j \in 1..Len(encoded) : encoded[j] \in Base62Chars
                     /\ ~r.retry
                     /\ Len(r.s) = length)
    /\ [](id.pc = "failed" => id.err = ErrRandom)
    /\ (id.pc = "generating") ~> (id.pc \in {"generated", "failed"})

\* C30 witness: the key segment has come back from a read of zero bytes only, and
\* GenerateID goes on to the password
ZeroReadGaveSegment ==
    /\ id.pc = "generating"
    /\ Len(id.segs) = 1
    /\ id.segs[1] = Fill(KeyLength, base62Alphabet[1])

====
